---- MODULE Spec2Model ----
(***************************************************************************)
(* Model of the graph core of Visual_Internet_Proto_V2:                    *)
(*   - RequestQueue        (src/src/nodes/request_queue.js)                *)
(*   - NodesManager        (src/src/nodes/singlenode.js)                   *)
(*   - CA hydration        (src/src/nodes/CA_node_material.js)             *)
(* Time is in milliseconds, as Date.now() returns it.                      *)
(***************************************************************************)
EXTENDS Integers, Sequences, FiniteSets, Bags, TLC

\* ------------------------------------------------------------------------
\* Bounds of the model
\* ------------------------------------------------------------------------
MaxRequests == 3
TickMs == 300
MaxTicks == 3
NumNodes == 3
MaxRaf == 2
MaxSnapshot == 2
NumScanNodes == 2
NumPortNodes == 1
MaxBuilds == 2
NumPhysNodes == 2
MaxSimTicks == 2
GridSize == 5
MaxLive == 3
MaxSteps == 2
MaxFrames == 4
MaxSettle == 2

\* ------------------------------------------------------------------------
\* Program constants of RequestQueue
\* ------------------------------------------------------------------------
DefaultCacheExpiration == 300000
DefaultConcurrentRequests == 2
DefaultRequestDelay == 300
DefaultRetryLimit == 3
DefaultPriority == 5
CleanupIntervalMs == 60000

Urls == {"u1", "u2"}
\* the calls made to enqueue: a URL and options.priority (0: left unset)
EnqueueCalls == { << "u1", 0 >>, << "u1", 1 >>, << "u2", 0 >> }
NoEntry == [data |-> 0, timestamp |-> -1]

\* options objects handed to the constructor; 0 stands for an option left unset
QueueOptions ==
  { [cacheExpiration |-> 600, concurrentRequests |-> 0, requestDelay |-> 0, retryLimit |-> 1],
    [cacheExpiration |-> 600, concurrentRequests |-> 1, requestDelay |-> 0, retryLimit |-> 0] }

\* JavaScript's  a || b  on numbers
OrDefault(v, d) == IF v = 0 THEN d ELSE v

VARIABLES
  now,             \* Date.now()
  ticks,           \* number of clock advances so far
  cfg,             \* the fields the constructor sets from its options
  queue,           \* this.queue
  isProcessing,    \* this.isProcessing
  cache,           \* this.cache : url -> entry
  activeRequests,  \* this.activeRequests
  inflight,        \* requests whose makeRequest awaits its fetch
  timers,          \* bag of deadlines of setTimeout(() => this.processQueue())
  nextCleanup,     \* next firing of the cache cleanup interval
  nextId,          \* number of enqueue calls so far + 1
  promise,         \* id -> state of the promise enqueue returned
  cbCalls,         \* id -> what the callback, if one was given, has received so far
  attempts,        \* id -> number of fetches started for the request
  lastCompletion   \* time of the latest completion (-1: none yet)

VARIABLES
  gs,              \* GraphState: id -> merged node record
  mesh,            \* nodeRegistry: id -> render object (userData and port children)
  order,           \* insertion order of the node ids in nodeRegistry
  kids,            \* port children in nodeRegistry, as << parent id, port >>
  builds,          \* id -> material builds in flight on the registered render object
  orphanBuilds,    \* id -> material builds in flight on render objects removed since
  raf,             \* scheduled requestAnimationFrame(applyPendingCAUpdates) callbacks
  dispatched,      \* ids whose build the latest event-loop turn dispatched, in order
  lastTurn         \* the handler the latest event-loop turn ran

VARIABLES
  changedNodes,    \* this.changedNodes, in insertion order
  threw,           \* whether the latest updateNodes call ended in an exception
  engine,          \* whether this.physicsEngine has been constructed
  particles,       \* PhysicsEngine.nodes: id -> particle (x counts its moves, fx its pin)
  links,           \* PhysicsEngine.links
  restartAlpha,    \* energy of the latest simulation (re)start, in hundredths
  simTicks,        \* simulation ticks so far
  caNodes          \* window.caNodesManager.nodes, as << id, "live" or "orphan" >>

nmVars == << gs, mesh, order, kids, builds, orphanBuilds, raf, dispatched, lastTurn,
             changedNodes, threw, engine, particles, links, restartAlpha, simTicks,
             caNodes >>

rqVars == << now, ticks, cfg, queue, isProcessing, cache, activeRequests, inflight,
             timers, nextCleanup, nextId, promise, cbCalls, attempts,
             lastCompletion >>

VARIABLES
  caUserData,      \* material.userData: the rules the material was made with
  caCurrent,       \* material.userData.caData.current
  caNext,          \* material.userData.caData.next
  caInitial,       \* the grid the material was made with
  caSteps,         \* evolution steps so far
  caAccumulated,   \* material.userData.accumulatedTime
  caHueShift,      \* material.userData.hueShift, in half degrees
  caElapsed,       \* the time the frames so far have taken together
  caFrames         \* calls of updateCAMaterial so far

caVars == << caUserData, caCurrent, caNext, caInitial, caSteps, caAccumulated,
             caHueShift, caElapsed, caFrames >>

vars == << rqVars, nmVars, caVars >>

ReqIds == 1..(MaxRequests + 1)

\* ------------------------------------------------------------------------
\* RequestQueue
\* ------------------------------------------------------------------------
Constructor(options) ==
  [ cacheExpiration    |-> OrDefault(options.cacheExpiration, DefaultCacheExpiration),
    concurrentRequests |-> OrDefault(options.concurrentRequests, DefaultConcurrentRequests),
    requestDelay       |-> OrDefault(options.requestDelay, DefaultRequestDelay),
    retryLimit         |-> OrDefault(options.retryLimit, DefaultRetryLimit) ]

\* the comparator of enqueue's sort: TRUE when a must not come after b
CompareLE(a, b) ==
  IF a.priority # b.priority THEN a.priority - b.priority <= 0
                             ELSE a.addedAt - b.addedAt <= 0

\* stable insertion of x into a sorted sequence: behind every element that
\* does not compare greater than x
RECURSIVE InsertSorted(_, _)
InsertSorted(x, s) ==
  IF s = << >> THEN << x >>
  ELSE IF CompareLE(Head(s), x) THEN << Head(s) >> \o InsertSorted(x, Tail(s))
  ELSE << x >> \o s

SortQueueSkipped(s) == s

\* Array.prototype.sort with the comparator (stable)
RECURSIVE SortQueue(_)
SortQueue(s) ==
  IF s = << >> THEN << >>
  ELSE InsertSorted(s[Len(s)], SortQueue(SubSeq(s, 1, Len(s) - 1)))

MayAdmitOffByOne(q, active, limit) == Len(q) > 0 /\ active <= limit

\* the guard of processQueue's while loop
MayAdmit(q, active, limit) == Len(q) > 0 /\ active < limit

\* processQueue's while loop: returns the queue left and the requests admitted
RECURSIVE AdmitLoop(_, _, _, _)
AdmitLoop(q, active, limit, admitted) ==
  IF MayAdmit(q, active, limit)
  THEN AdmitLoop(Tail(q), active + 1, limit, admitted \o << Head(q) >>)
  ELSE [queue |-> q, active |-> active, admitted |-> admitted]

SeqToSet(s) == { s[i] : i \in 1..Len(s) }

ProcessQueueStaysBusy(q, active) ==
  LET r == AdmitLoop(q, active, cfg.concurrentRequests, << >>)
  IN  [queue |-> r.queue, active |-> r.active, admitted |-> r.admitted,
       isProcessing |-> TRUE]

\* processQueue(): state after one call
ProcessQueue(q, active) ==
  IF Len(q) = 0
  THEN [queue |-> q, active |-> active, admitted |-> << >>, isProcessing |-> FALSE]
  ELSE LET r == AdmitLoop(q, active, cfg.concurrentRequests, << >>)
       IN  [queue |-> r.queue, active |-> r.active, admitted |-> r.admitted,
            isProcessing |-> TRUE]

CacheHitInclusive(url) ==
  cache[url] # NoEntry /\ (now - cache[url].timestamp) <= cfg.cacheExpiration

\* the cache test of enqueue
CacheHit(url) ==
  cache[url] # NoEntry /\ (now - cache[url].timestamp) < cfg.cacheExpiration

ApplyProcess(p) ==
  /\ queue' = p.queue
  /\ activeRequests' = p.active
  /\ isProcessing' = p.isProcessing
  /\ inflight' = inflight \cup SeqToSet(p.admitted)
  /\ attempts' = [i \in ReqIds |->
                    IF \E r \in SeqToSet(p.admitted) : r.id = i
                    THEN attempts[i] + 1 ELSE attempts[i]]

Enqueue(url, prio) ==
  /\ nextId <= MaxRequests
  /\ nextId' = nextId + 1
  /\ IF CacheHit(url)
     THEN /\ cbCalls' = [cbCalls EXCEPT ![nextId] =
                           [@ EXCEPT !.data = Append(@, cache[url].data)]]
          /\ promise' = [promise EXCEPT ![nextId] =
                           [state |-> "resolved", value |-> cache[url].data, url |-> url]]
          /\ UNCHANGED << queue, activeRequests, isProcessing, inflight, attempts >>
     ELSE LET item == [id |-> nextId, url |-> url, retries |-> 0,
                       priority |-> OrDefault(prio, DefaultPriority), addedAt |-> now]
              sorted == SortQueue(Append(queue, item))
          IN  /\ promise' = [promise EXCEPT ![nextId] = [state |-> "pending", value |-> 0, url |-> url]]
              /\ UNCHANGED cbCalls
              /\ IF ~isProcessing
                 THEN ApplyProcess(ProcessQueue(sorted, activeRequests))
                 ELSE /\ queue' = sorted
                      /\ UNCHANGED << activeRequests, isProcessing, inflight, attempts >>
  /\ UNCHANGED << now, ticks, cfg, cache, timers, nextCleanup, lastCompletion >>
  /\ UNCHANGED << nmVars, caVars >>

MayRetryOffByOne(req) == req.retries <= cfg.retryLimit

\* the retry test in makeRequest's catch block
MayRetry(req) == req.retries < cfg.retryLimit

RequeueAtBack(req, q) == q \o << [req EXCEPT !.retries = @ + 1] >>

\* request.retries++; this.queue.unshift(request)
Requeue(req, q) == << [req EXCEPT !.retries = @ + 1] >> \o q

\* makeRequest after its fetch settled, followed by the finally() of processQueue
Complete(req, ok, data) ==
  /\ req \in inflight
  /\ inflight' = inflight \ {req}
  /\ IF ok
     THEN /\ cache' = [cache EXCEPT ![req.url] = [data |-> data, timestamp |-> now]]
          /\ cbCalls' = [cbCalls EXCEPT ![req.id] =
                           [@ EXCEPT !.data = Append(@, data)]]
          /\ promise' = [promise EXCEPT ![req.id] = [state |-> "resolved", value |-> data, url |-> req.url]]
          /\ UNCHANGED queue
     ELSE /\ UNCHANGED cache
          /\ IF MayRetry(req)
             THEN /\ queue' = Requeue(req, queue)
                  /\ UNCHANGED << cbCalls, promise >>
             ELSE /\ cbCalls' = [cbCalls EXCEPT ![req.id] =
                                   [@ EXCEPT !.err = @ + 1]]
                  /\ promise' = [promise EXCEPT ![req.id] =
                                   [state |-> "rejected", value |-> 0, url |-> req.url]]
                  /\ UNCHANGED queue
  /\ activeRequests' = activeRequests - 1
  /\ timers' = timers (+) SetToBag({now + cfg.requestDelay})
  /\ lastCompletion' = now
  /\ UNCHANGED << now, ticks, cfg, isProcessing, nextCleanup, nextId, attempts >>
  /\ UNCHANGED << nmVars, caVars >>

\* a setTimeout(() => this.processQueue(), this.requestDelay) fires
TimerFire(d) ==
  /\ BagIn(d, timers)
  /\ d <= now
  /\ timers' = timers (-) SetToBag({d})
  /\ ApplyProcess(ProcessQueue(queue, activeRequests))
  /\ UNCHANGED << now, ticks, cfg, cache, nextCleanup, nextId, promise, cbCalls,
                  lastCompletion >>
  /\ UNCHANGED << nmVars, caVars >>

\* the test of cleanupCache
Expired(entry, t) == t - entry.timestamp > cfg.cacheExpiration

CleanupCache ==
  /\ now >= nextCleanup
  /\ nextCleanup' = nextCleanup + CleanupIntervalMs
  /\ cache' = [u \in Urls |->
                 IF cache[u] # NoEntry /\ Expired(cache[u], now) THEN NoEntry ELSE cache[u]]
  /\ UNCHANGED << now, ticks, cfg, queue, isProcessing, activeRequests, inflight, timers,
                  nextId, promise, cbCalls, attempts, lastCompletion >>
  /\ UNCHANGED << nmVars, caVars >>

\* the clock advances
Tick(d) ==
  /\ ticks < MaxTicks
  /\ \A t \in BagToSet(timers) : t > now
  /\ now < nextCleanup
  /\ ticks' = ticks + 1
  /\ now' = now + d
  /\ UNCHANGED << cfg, queue, isProcessing, cache, activeRequests, inflight, timers,
                  nextCleanup, nextId, promise, cbCalls, attempts, lastCompletion >>
  /\ UNCHANGED << nmVars, caVars >>

\* a quiet period up to the next firing of the cleanup interval
IdleGap ==
  /\ ticks < MaxTicks
  /\ queue = << >> /\ inflight = {} /\ timers = EmptyBag
  /\ now < nextCleanup
  /\ ticks' = ticks + 1
  /\ now' = now + CleanupIntervalMs
  /\ UNCHANGED << cfg, queue, isProcessing, cache, activeRequests, inflight, timers,
                  nextCleanup, nextId, promise, cbCalls, attempts, lastCompletion >>
  /\ UNCHANGED << nmVars, caVars >>

\* time passes until the earliest pending setTimeout is due
AwaitTimer ==
  /\ timers # EmptyBag
  /\ \A t \in BagToSet(timers) : t > now
  /\ now' = CHOOSE t \in BagToSet(timers) : \A u \in BagToSet(timers) : t <= u
  /\ UNCHANGED << ticks, cfg, queue, isProcessing, cache, activeRequests, inflight, timers,
                  nextCleanup, nextId, promise, cbCalls, attempts, lastCompletion >>
  /\ UNCHANGED << nmVars, caVars >>

\* the fields the constructor sets whatever its options
FreshQueue ==
  /\ now = 0
  /\ ticks = 0
  /\ queue = << >>
  /\ isProcessing = FALSE
  /\ cache = [u \in Urls |-> NoEntry]
  /\ activeRequests = 0
  /\ inflight = {}
  /\ timers = EmptyBag
  /\ nextCleanup = CleanupIntervalMs
  /\ nextId = 1
  /\ promise = [i \in ReqIds |-> [state |-> "none", value |-> 0, url |-> "none"]]
  /\ cbCalls = [i \in ReqIds |-> [data |-> << >>, err |-> 0]]
  /\ attempts = [i \in ReqIds |-> 0]
  /\ lastCompletion = -1

InitRQ ==
  /\ cfg \in { Constructor(o) : o \in QueueOptions }
  /\ FreshQueue

NextRQ ==
  \/ \E c \in EnqueueCalls : Enqueue(c[1], c[2])
  \/ \E r \in inflight : Complete(r, TRUE, r.id)
  \/ \E r \in inflight : Complete(r, FALSE, 0)
  \/ \E d \in BagToSet(timers) : TimerFire(d)
  \/ CleanupCache
  \/ Tick(TickMs)
  \/ IdleGap


\* ------------------------------------------------------------------------
\* NodesManager and CA hydration
\* ------------------------------------------------------------------------
NodeIds == 1..NumNodes
BatchSize == 1
Absent == "absent"
NoPorts == << -1 >>
PortLists == { << >>, << 22 >>, << 80 >>, << 22, 80 >>, << 80, 22 >> }
ScanResults == { << 22 >> }

\* JavaScript truthiness of a flag that is undefined, false or true
Truthy(v) == v = "true"

NoNode == [present |-> FALSE, fully_scanned |-> Absent, ports |-> NoPorts,
           needsCAUpdate |-> Absent, caProcessing |-> Absent, caEnabled |-> Absent]

NoMesh == [exists |-> FALSE, fully_scanned |-> Absent, ports |-> NoPorts,
           needsCAUpdate |-> Absent, caProcessing |-> Absent, caEnabled |-> Absent,
           children |-> {}, position |-> "none"]

\* an entry of a snapshot of the snapshot provider
Entry(id, fs, ports) ==
  [id |-> id, fully_scanned |-> fs, ports |-> ports,
   needsCAUpdate |-> Absent, caProcessing |-> Absent, caEnabled |-> Absent]

\* a field of  { ...old, ...new }
MergeField(old, new) == IF new = Absent THEN old ELSE new
MergePorts(old, new) == IF new = NoPorts THEN old ELSE new

\* GraphState.addOrUpdateNode: data merged over the existing record
AddOrUpdateNode(rec, data) ==
  [present       |-> TRUE,
   fully_scanned |-> MergeField(rec.fully_scanned, data.fully_scanned),
   ports         |-> MergePorts(rec.ports, data.ports),
   needsCAUpdate |-> MergeField(rec.needsCAUpdate, data.needsCAUpdate),
   caProcessing  |-> MergeField(rec.caProcessing, data.caProcessing),
   caEnabled     |-> MergeField(rec.caEnabled, data.caEnabled)]

IngestEntryAddsOnly(s, e) ==
  [s EXCEPT !.gs[e.id] = IF @.present THEN @ ELSE AddOrUpdateNode(@, e),
            !.changedNodes = IF e.id \in SeqToSet(@) THEN @ ELSE Append(@, e.id)]

\* the body of updateNodes' forEach for one snapshot entry
IngestEntry(s, e) ==
  LET wasFullyScanned   == s.gs[e.id].present /\ Truthy(s.gs[e.id].fully_scanned)
      isNowFullyScanned == Truthy(e.fully_scanned)
      m    == s.mesh[e.id]
      flag == ~wasFullyScanned /\ isNowFullyScanned /\ m.exists /\ ~Truthy(m.caEnabled)
  IN  [s EXCEPT !.gs[e.id] = AddOrUpdateNode(@, e),
                !.changedNodes = IF e.id \in SeqToSet(@) THEN @ ELSE Append(@, e.id),
                !.mesh[e.id] = IF flag THEN [@ EXCEPT !.needsCAUpdate = "true"] ELSE @]

RECURSIVE IngestAll(_, _)
IngestAll(s, snap) ==
  IF snap = << >> THEN s ELSE IngestAll(IngestEntry(s, Head(snap)), Tail(snap))

\* removeChildNodesForPorts followed by the rest of spawnChildNodes
SpawnChildNodes(s, id, openPorts) ==
  [s EXCEPT !.mesh[id].children = SeqToSet(openPorts),
            !.mesh[id].ports = openPorts,
            !.kids = (@ \ { << id, p >> : p \in s.mesh[id].children })
                       \cup { << id, p >> : p \in SeqToSet(openPorts) }]

\* the test that guards spawnChildNodes in reconcileSceneMeshes
NeedsSpawn(m) ==
  m.ports # NoPorts /\ Len(m.ports) > 0 /\ m.ports[1] \notin m.children

CreateMeshUnregistered(n) == NoMesh

\* the render object reconcileSceneMeshes creates and registers for a node state
CreateMesh(n) ==
  [exists |-> TRUE, fully_scanned |-> n.fully_scanned, ports |-> n.ports,
   needsCAUpdate |-> IF Truthy(n.fully_scanned) THEN "true" ELSE n.needsCAUpdate,
   caProcessing |-> n.caProcessing, caEnabled |-> n.caEnabled,
   children |-> {}, position |-> "placed"]

\* the node with id "router" is the one of type "router"
RouterId == 1

\* the node of layer "web"; its parentId names the router
WebId == 2
WebParentId == RouterId

\* where a new render object is put: the router at the world origin, a web
\* node at random around its parent or, its parent unknown, at the origin,
\* every other node at random around the router or the origin
InitialPlacement(s, id) ==
  IF id = RouterId THEN "origin"
  ELSE IF id = WebId /\ ~s.mesh[WebParentId].exists THEN "origin"
  ELSE "placed"

\* the position of a render object that is there already, its node state
\* carrying no position: a web node is put at random around its parent again
Reposition(s, id, position) ==
  IF id = WebId /\ s.mesh[WebParentId].exists THEN "placed" ELSE position

\* the body of reconcileSceneMeshes' forEach for one node state
ReconcileNode(s, id) ==
  LET n == s.gs[id]
      m == s.mesh[id]
      created == CreateMesh(n)
      assigned == [m EXCEPT !.fully_scanned = MergeField(@, n.fully_scanned),
                            !.ports         = MergePorts(@, n.ports),
                            !.needsCAUpdate = MergeField(@, n.needsCAUpdate),
                            !.caProcessing  = MergeField(@, n.caProcessing),
                            !.caEnabled     = MergeField(@, n.caEnabled)]
      updated == IF /\ Truthy(n.fully_scanned)
                    /\ ~Truthy(assigned.caEnabled)
                    /\ ~Truthy(assigned.caProcessing)
                 THEN [assigned EXCEPT !.needsCAUpdate = "true"]
                 ELSE assigned
      m1 == IF m.exists THEN [updated EXCEPT !.position = Reposition(s, id, @)]
            ELSE [created EXCEPT !.position = InitialPlacement(s, id)]
      s1 == [s EXCEPT !.mesh[id] = m1,
                      !.order = IF m.exists \/ ~m1.exists THEN @ ELSE Append(@, id)]
  IN  IF NeedsSpawn(m1) THEN SpawnChildNodes(s1, id, m1.ports) ELSE s1

RECURSIVE ReconcileAll(_, _)
ReconcileAll(s, ids) ==
  IF ids = << >> THEN s ELSE ReconcileAll(ReconcileNode(s, Head(ids)), Tail(ids))

RECURSIVE IdsAscending(_)
IdsAscending(S) ==
  IF S = {} THEN << >>
  ELSE LET lo == CHOOSE x \in S : \A y \in S : x <= y
       IN  << lo >> \o IdsAscending(S \ {lo})

\* reconcileSceneMeshes: the changed ids, or every node when none is marked
ReconcileSceneMeshes(s, changed) ==
  ReconcileAll(s, IF changed # << >>
                  THEN SelectSeq(changed, LAMBDA i : s.gs[i].present)
                  ELSE IdsAscending({ i \in NodeIds : s.gs[i].present }))

\* the filter of applyPendingCAUpdates
Eligible(m) ==
  m.exists /\ Truthy(m.needsCAUpdate) /\ ~Truthy(m.caEnabled) /\ ~Truthy(m.caProcessing)

UpdateNodeToCAMaterialStartNoFlag(m) ==
  [mesh |-> [m EXCEPT !.caProcessing = "false", !.caEnabled = "false"], started |-> TRUE]

\* updateNodeToCAMaterial up to its first await: the flags it leaves and
\* whether it went on to build the material
UpdateNodeToCAMaterialStart(m) ==
  LET r == [m EXCEPT !.caProcessing = "false", !.caEnabled = "false"]
  IN  IF Truthy(r.caProcessing) \/ Truthy(r.caEnabled)
      THEN [mesh |-> r, started |-> FALSE]
      ELSE [mesh |-> [r EXCEPT !.caProcessing = "true"], started |-> TRUE]

\* the body of applyPendingCAUpdates' forEach for one render object
Dispatch(s, id) ==
  LET st == UpdateNodeToCAMaterialStart(
              [s.mesh[id] EXCEPT !.needsCAUpdate = "false", !.caProcessing = "true"])
  IN  [s EXCEPT !.mesh[id] = st.mesh,
                !.builds[id] = IF st.started THEN @ + 1 ELSE @,
                !.dispatched = IF st.started THEN Append(@, id) ELSE @]

RECURSIVE DispatchAll(_, _)
DispatchAll(s, ids) ==
  IF ids = << >> THEN s ELSE DispatchAll(Dispatch(s, Head(ids)), Tail(ids))

\* nodesToUpdate of applyPendingCAUpdates, in registry order
NodesToUpdate(s) == SelectSeq(s.order, LAMBDA id : Eligible(s.mesh[id]))

\* the test that schedules another pass on the next frame
MorePending(n) == n > BatchSize

ApplyPendingCAUpdatesDeferred(s) ==
  [s EXCEPT !.raf = IF NodesToUpdate(s) # << >> THEN @ + 1 ELSE @]

\* applyPendingCAUpdates(): the first batch is dispatched, and another pass is
\* scheduled for the next frame if more nodes wait
ApplyPendingCAUpdates(s) ==
  LET nodesToUpdate == NodesToUpdate(s)
      n  == Len(nodesToUpdate)
      s1 == DispatchAll(s, SubSeq(nodesToUpdate, 1, IF n < BatchSize THEN n ELSE BatchSize))
  IN  [s1 EXCEPT !.raf = IF MorePending(n) THEN @ + 1 ELSE @]

NoPin == -1
NoParticle == [present |-> FALSE, x |-> 0, vx |-> 0, fx |-> NoPin]

\* restart energies, in hundredths: d3's initial alpha, topology change, content only
InitialAlpha == 100
TopologyAlpha == 10
ContentAlpha == 2

InitializeNodesReseedsAll(old, d3Nodes) ==
  [i \in NodeIds |->
     IF i \notin SeqToSet(d3Nodes) THEN NoParticle
     ELSE [present |-> TRUE, x |-> 0, vx |-> 0, fx |-> NoPin]]

\* PhysicsEngine.initializeNodes: existing particles are reused, new ones made
\* (the simulation gives a new particle the velocity 0)
InitializeNodes(old, d3Nodes) ==
  [i \in NodeIds |->
     IF i \notin SeqToSet(d3Nodes) THEN NoParticle
     ELSE IF old[i].present THEN old[i]
     ELSE [present |-> TRUE, x |-> 0, vx |-> 0, fx |-> NoPin]]

PinRouterSkipped(ps, d3Nodes) == ps

\* PhysicsEngine.pinRouter: the first particle of a render object of type router
PinRouter(ps, d3Nodes) ==
  IF RouterId \in SeqToSet(d3Nodes)
  THEN [ps EXCEPT ![RouterId].fx = ps[RouterId].x]
  ELSE ps

\* orbitRadii of forceOrbit, by the type of the child
OrbitRadius(type) ==
  IF type = "device" THEN 100 ELSE IF type = "web" THEN 30 ELSE 80

Sign(v) == IF v > 0 THEN 1 ELSE IF v < 0 THEN -1 ELSE 0

\* forceOrbit for the particle n = nodes[id] at the given distance from its
\* parent: the sign of the change of n's velocity along the line from the
\* parent to n (-1 toward the parent, 1 away from it, 0 none). The strength
\* 0.05 and alpha are positive, so the sign is that of -error. The force reads
\* the parent and the type from n.userData, a field of the particle itself.
ForceOrbit(nodes, id, distance) ==
  LET n == nodes[id]
  IN  IF "userData" \in DOMAIN n /\ n.userData.parentId \in NodeIds
      THEN IF nodes[n.userData.parentId].present
           THEN -Sign(distance - OrbitRadius(n.userData.type))
           ELSE 0
      ELSE 0

\* forceLink resolves every link end by id and throws on an id with no particle
LinkEndsMissing(edges, d3Nodes) ==
  \E k \in 1..Len(edges) :
     edges[k][1] \notin SeqToSet(d3Nodes) \/ edges[k][2] \notin SeqToSet(d3Nodes)

\* the test of updateGraph that picks the restart energy
NewAlpha(nodesChanged, linksChanged) ==
  IF nodesChanged \/ linksChanged THEN TopologyAlpha ELSE ContentAlpha

\* new PhysicsEngine(d3Nodes, d3Links, nodeRegistry)
NewPhysicsEngine(s, d3Nodes, edges) ==
  IF LinkEndsMissing(edges, d3Nodes)
  THEN [s EXCEPT !.threw = TRUE]
  ELSE [s EXCEPT !.engine = TRUE,
                 !.particles = PinRouter(InitializeNodes([i \in NodeIds |-> NoParticle],
                                                         d3Nodes), d3Nodes),
                 !.links = edges,
                 !.restartAlpha = InitialAlpha]

UpdateGraphKeepsLinks(s, d3Nodes, edges) ==
  IF LinkEndsMissing(edges, d3Nodes)
  THEN [s EXCEPT !.particles = InitializeNodes(s.particles, d3Nodes), !.threw = TRUE]
  ELSE [s EXCEPT !.particles = PinRouter(InitializeNodes(s.particles, d3Nodes), d3Nodes),
                 !.restartAlpha = ContentAlpha]

\* PhysicsEngine.updateGraph(d3Nodes, d3Links)
UpdateGraph(s, d3Nodes, edges) ==
  LET prevNodeCount == Cardinality({ i \in NodeIds : s.particles[i].present })
      prevLinkCount == Len(s.links)
      nodes == InitializeNodes(s.particles, d3Nodes)
  IN  IF LinkEndsMissing(edges, d3Nodes)
      THEN [s EXCEPT !.particles = nodes, !.links = edges, !.threw = TRUE]
      ELSE [s EXCEPT !.particles = PinRouter(nodes, d3Nodes),
                     !.links = edges,
                     !.restartAlpha = NewAlpha(Len(d3Nodes) # prevNodeCount,
                                               Len(edges) # prevLinkCount)]

\* updatePhysicsEngine(edgesData): one particle per registered render object
\* that is not a port child
UpdatePhysicsEngine(s, edges) ==
  IF s.engine THEN UpdateGraph(s, s.order, edges)
  ELSE NewPhysicsEngine(s, s.order, edges)

\* updateNodes(nodesData, edgesData); an exception of the physics update
\* leaves the steps after it undone
UpdateNodesCall(s, snap, edges) ==
  LET s0 == IngestAll([s EXCEPT !.threw = FALSE], snap)
      s1 == ReconcileSceneMeshes(s0, s0.changedNodes)
      s2 == UpdatePhysicsEngine(s1, edges)
  IN  IF s2.threw THEN s2
      ELSE [ApplyPendingCAUpdates(s2) EXCEPT !.changedNodes = << >>]

\* the manager's state at the start of an event-loop turn
TurnStart ==
  [gs |-> gs, mesh |-> mesh, order |-> order, kids |-> kids, builds |-> builds,
   raf |-> raf, dispatched |-> << >>, changedNodes |-> changedNodes, threw |-> threw,
   engine |-> engine, particles |-> particles, links |-> links,
   restartAlpha |-> restartAlpha, caNodes |-> caNodes]

TurnEnd(end, name) ==
  \E s \in {end} :
    /\ \A id \in NodeIds : s.builds[id] <= MaxBuilds
    /\ gs' = s.gs /\ mesh' = s.mesh /\ order' = s.order /\ kids' = s.kids
    /\ builds' = s.builds /\ raf' = s.raf /\ dispatched' = s.dispatched
    /\ changedNodes' = s.changedNodes /\ threw' = s.threw /\ engine' = s.engine
    /\ particles' = s.particles /\ links' = s.links
    /\ restartAlpha' = s.restartAlpha /\ caNodes' = s.caNodes
    /\ lastTurn' = name
    /\ UNCHANGED << orphanBuilds, simTicks, rqVars, caVars >>

\* a snapshot of the provider arrives
UpdateNodes(snap, edges) ==
  /\ raf < MaxRaf
  /\ TurnEnd(UpdateNodesCall(TurnStart, snap, edges), "updateNodes")

\* one tick of the force simulation: a pinned particle is put back on its pin
\* and stopped, every other particle changes its velocity and moves; the tick
\* handler then copies the position of every particle to its render object
SimulationTick ==
  /\ engine
  /\ simTicks < MaxSimTicks
  /\ simTicks' = simTicks + 1
  /\ particles' = [i \in NodeIds |->
                     IF ~particles[i].present THEN particles[i]
                     ELSE IF particles[i].fx # NoPin
                          THEN [particles[i] EXCEPT !.x = particles[i].fx, !.vx = 0]
                          ELSE [particles[i] EXCEPT !.x = @ + 1, !.vx = @ + 1]]
  /\ mesh' = [i \in NodeIds |->
                IF particles[i].present /\ mesh[i].exists
                THEN [mesh[i] EXCEPT !.position = "particle"]
                ELSE mesh[i]]
  /\ dispatched' = << >>
  /\ lastTurn' = "tick"
  /\ UNCHANGED << gs, order, kids, builds, orphanBuilds, raf, changedNodes, threw,
                  engine, links, restartAlpha, caNodes, rqVars, caVars >>

\* the callbacks scheduled with requestAnimationFrame run, one after the other
RECURSIVE RunCallbacks(_, _)
RunCallbacks(s, k) ==
  IF k = 0 THEN s ELSE RunCallbacks(ApplyPendingCAUpdates(s), k - 1)

Frame ==
  /\ raf > 0
  /\ TurnEnd(RunCallbacks([TurnStart EXCEPT !.raf = 0], raf), "frame")

\* caNodesManager.registerNode(node)
RegisterNode(nodes, node) == nodes \cup {node}

\* gene fetches on the wire: each build in flight awaits the fetch of
\* fetchNodeGenes, which calls fetch itself
GeneFetches(id) == builds[id] + orphanBuilds[id]

\* updateNodeToCAMaterial after its await, the material built
BuildResolve(id) ==
  /\ builds[id] > 0
  /\ TurnEnd([TurnStart EXCEPT !.builds[id] = @ - 1,
                               !.caNodes = RegisterNode(@, << id, "live" >>),
                               !.mesh[id].caEnabled = "true",
                               !.mesh[id].caProcessing = "false"], "resolve")

\* updateNodeToCAMaterial after its await, the build having thrown
BuildFail(id) ==
  /\ builds[id] > 0
  /\ TurnEnd([TurnStart EXCEPT !.builds[id] = @ - 1,
                               !.mesh[id].caProcessing = "false"], "fail")

\* the same continuations for a render object that removeNode has unregistered
\* in the meantime
OrphanResolve(id) ==
  /\ orphanBuilds[id] > 0
  /\ orphanBuilds' = [orphanBuilds EXCEPT ![id] = @ - 1]
  /\ caNodes' = RegisterNode(caNodes, << id, "orphan" >>)
  /\ dispatched' = << >>
  /\ lastTurn' = "orphanResolve"
  /\ UNCHANGED << gs, mesh, order, kids, builds, raf, changedNodes, threw, engine,
                  particles, links, restartAlpha, simTicks, rqVars, caVars >>

OrphanFail(id) ==
  /\ orphanBuilds[id] > 0
  /\ orphanBuilds' = [orphanBuilds EXCEPT ![id] = @ - 1]
  /\ dispatched' = << >>
  /\ lastTurn' = "orphanFail"
  /\ UNCHANGED << gs, mesh, order, kids, builds, raf, changedNodes, threw, engine,
                  particles, links, restartAlpha, simTicks, caNodes, rqVars, caVars >>

\* UIManager.handleAction("scanPorts") after its fetch returned the ports
ScanPorts(id, ports) ==
  /\ raf < MaxRaf
  /\ mesh[id].exists
  /\ LET s0 == [TurnStart EXCEPT !.mesh[id].ports = ports]
         u  == s0.mesh[id]
         e  == [id |-> id, fully_scanned |-> u.fully_scanned, ports |-> u.ports,
                needsCAUpdate |-> u.needsCAUpdate, caProcessing |-> u.caProcessing,
                caEnabled |-> u.caEnabled]
         s1 == UpdateNodesCall(s0, << e >>, << >>)
     IN  TurnEnd(IF s1.threw THEN s1 ELSE SpawnChildNodes(s1, id, ports), "scanPorts")

\* NetworkManager.updateTracerouteNodes: one updateNodes call per unknown hop
RECURSIVE TracerouteHops(_, _)
TracerouteHops(s, hops) ==
  IF hops = << >> THEN s
  ELSE TracerouteHops(IF s.mesh[Head(hops)].exists THEN s
                      ELSE UpdateNodesCall(s, << Entry(Head(hops), Absent, NoPorts) >>, << >>),
                      Tail(hops))

UpdateTracerouteNodes(hops) ==
  /\ raf + Len(hops) <= MaxRaf
  /\ TurnEnd(TracerouteHops(TurnStart, hops), "traceroute")

\* cleanupCANodes: the registered render objects that still have a parent
CleanupCANodes(nodes, removed) ==
  { c \in nodes : c[2] = "live" /\ c[1] \notin removed }

\* removeNode(nodeId) for the id of a node
RemoveNode(id) ==
  /\ mesh[id].exists
  /\ builds[id] + orphanBuilds[id] <= MaxBuilds
  /\ caNodes' = CleanupCANodes(caNodes, {id})
  /\ mesh' = [mesh EXCEPT ![id] = NoMesh]
  /\ order' = SelectSeq(order, LAMBDA x : x # id)
  /\ orphanBuilds' = [orphanBuilds EXCEPT ![id] = @ + builds[id]]
  /\ builds' = [builds EXCEPT ![id] = 0]
  /\ dispatched' = << >>
  /\ lastTurn' = "removeNode"
  /\ UNCHANGED << gs, kids, raf, changedNodes, threw, engine, particles, links,
                  restartAlpha, simTicks >>
  /\ UNCHANGED << rqVars, caVars >>

\* removeNode(nodeId) for the id of a port child
RemoveChild(key) ==
  /\ key \in kids
  /\ kids' = kids \ {key}
  /\ caNodes' = CleanupCANodes(caNodes, {})
  /\ dispatched' = << >>
  /\ lastTurn' = "removeNode"
  /\ UNCHANGED << gs, mesh, order, builds, orphanBuilds, raf, changedNodes, threw,
                  engine, particles, links, restartAlpha, simTicks >>
  /\ UNCHANGED << rqVars, caVars >>

InitNM ==
  /\ gs = [i \in NodeIds |-> NoNode]
  /\ mesh = [i \in NodeIds |-> NoMesh]
  /\ order = << >>
  /\ kids = {}
  /\ builds = [i \in NodeIds |-> 0]
  /\ orphanBuilds = [i \in NodeIds |-> 0]
  /\ raf = 0
  /\ dispatched = << >>
  /\ lastTurn = "init"
  /\ changedNodes = << >>
  /\ threw = FALSE
  /\ engine = FALSE
  /\ particles = [i \in NodeIds |-> NoParticle]
  /\ links = << >>
  /\ restartAlpha = 0
  /\ simTicks = 0
  /\ caNodes = {}

\* snapshots: up to MaxSnapshot entries for ids of a set, in ascending order of id
RECURSIVE SnapshotsOver(_, _, _)
SnapshotsOver(ids, flags, portLists) ==
  IF ids = {} THEN { << >> }
  ELSE LET hi == CHOOSE x \in ids : \A y \in ids : y <= x
           rest == SnapshotsOver(ids \ {hi}, flags, portLists)
       IN  rest \cup { Append(r, Entry(hi, f, p)) :
                         r \in { x \in rest : Len(x) < MaxSnapshot },
                         f \in flags, p \in portLists }


\* ------------------------------------------------------------------------
\* CA material and its evolution
\* ------------------------------------------------------------------------
Coords == 0..(GridSize - 1)
Cells == Coords \X Coords

NoGene == [present |-> FALSE, birth |-> {}, survival |-> {}, neighbors |-> "moore",
           evolution_speed |-> 1]

\* what the gene provider may hold for a node
Genes == { [present |-> TRUE, birth |-> {3}, survival |-> {2, 3}, neighbors |-> "moore",
            evolution_speed |-> 1],
           [present |-> TRUE, birth |-> {3}, survival |-> {2, 3}, neighbors |-> "von_neumann",
            evolution_speed |-> 2],
           [present |-> TRUE, birth |-> {1}, survival |-> {}, neighbors |-> "von_neumann",
            evolution_speed |-> 1],
           [present |-> TRUE, birth |-> {2}, survival |-> {1, 8}, neighbors |-> "moore",
            evolution_speed |-> 3] }

\* createCAMaterialForNode: createGeneticCAMaterial stores the rules of the
\* genes in userData, createCATextureFromIP stores none
CreateCAMaterialForNode(genes) ==
  IF genes.present
  THEN [hasBirthRules |-> TRUE, birthRules |-> genes.birth,
        hasSurvivalRules |-> TRUE, survivalRules |-> genes.survival,
        useVonNeumann |-> IF genes.neighbors = "von_neumann" THEN "true" ELSE "false",
        evolutionSpeed |-> genes.evolution_speed]
  ELSE [hasBirthRules |-> FALSE, birthRules |-> {},
        hasSurvivalRules |-> FALSE, survivalRules |-> {},
        useVonNeumann |-> Absent,
        evolutionSpeed |-> 1]

DefaultBirthRulesTwo == {2}

\* userData.birthRules || [3]
DefaultBirthRules == {3}

\* userData.survivalRules || [2, 3]
DefaultSurvivalRules == {2, 3}

BirthRules(ud) == IF ud.hasBirthRules THEN ud.birthRules ELSE DefaultBirthRules
SurvivalRules(ud) == IF ud.hasSurvivalRules THEN ud.survivalRules ELSE DefaultSurvivalRules

VonNeumannDirections == << << -1, 0 >>, << 1, 0 >>, << 0, -1 >>, << 0, 1 >> >>

MooreDirectionsWithCentre ==
  << << -1, -1 >>, << -1, 0 >>, << -1, 1 >>, << 0, -1 >>, << 0, 0 >>, << 0, 1 >>,
     << 1, -1 >>, << 1, 0 >>, << 1, 1 >> >>

\* the offsets the two nested loops visit, (0, 0) skipped
MooreDirections ==
  << << -1, -1 >>, << -1, 0 >>, << -1, 1 >>, << 0, -1 >>, << 0, 1 >>,
     << 1, -1 >>, << 1, 0 >>, << 1, 1 >> >>

\* liveNeighbors, summed over the directions with (x + dx + size) % size
RECURSIVE CountLive(_, _, _, _)
CountLive(current, x, y, dirs) ==
  IF dirs = << >> THEN 0
  ELSE current[<< (x + Head(dirs)[1] + GridSize) % GridSize,
                  (y + Head(dirs)[2] + GridSize) % GridSize >>]
       + CountLive(current, x, y, Tail(dirs))

\* the grid applyGeneBasedEvolution writes into next
EvolvedGrid(ud, current) ==
  LET dirs == IF Truthy(ud.useVonNeumann) THEN VonNeumannDirections ELSE MooreDirections
  IN  [c \in Cells |->
         LET liveNeighbors == CountLive(current, c[1], c[2], dirs)
         IN  IF current[c] = 1
             THEN IF liveNeighbors \in SurvivalRules(ud) THEN 1 ELSE 0
             ELSE IF liveNeighbors \in BirthRules(ud) THEN 1 ELSE 0]

\* applyGeneBasedEvolution(material): next is written, then the buffers swap
ApplyGeneBasedEvolution ==
  /\ caSteps < MaxSteps
  /\ caSteps' = caSteps + 1
  /\ caCurrent' = EvolvedGrid(caUserData, caCurrent)
  /\ caNext' = caCurrent
  /\ UNCHANGED << caUserData, caInitial, caAccumulated, caHueShift, caElapsed, caFrames,
                  rqVars, nmVars >>

\* the frame times caNodesManager.update measures
FrameTimes == {100, 200, 900}

\* the interval of generations at evolution speed 1
BaseIntervalMs == 300

GenerationDueStrict(ud, accumulatedTime) ==
  accumulatedTime > BaseIntervalMs \div ud.evolutionSpeed

\* the test of updateCAMaterial, with updateInterval = 300 / evolutionSpeed
GenerationDue(ud, accumulatedTime) ==
  accumulatedTime >= BaseIntervalMs \div ud.evolutionSpeed

\* caNodesManager.update calls updateCAMaterial(material, deltaTime)
UpdateCAMaterial(deltaTime) ==
  /\ caFrames < MaxFrames
  /\ caFrames' = caFrames + 1
  /\ caElapsed' = caElapsed + deltaTime
  /\ IF GenerationDue(caUserData, caAccumulated + deltaTime)
     THEN /\ caCurrent' = EvolvedGrid(caUserData, caCurrent)
          /\ caNext' = caCurrent
          /\ caSteps' = caSteps + 1
          /\ caHueShift' = caHueShift + 1
          /\ caAccumulated' = 0
     ELSE /\ caAccumulated' = caAccumulated + deltaTime
          /\ UNCHANGED << caCurrent, caNext, caSteps, caHueShift >>
  /\ UNCHANGED << caUserData, caInitial, rqVars, nmVars >>

\* the grid whose live cells are those of a set
GridOf(live) == [c \in Cells |-> IF c \in live THEN 1 ELSE 0]

\* seedings: up to MaxLive live cells inside a 3 x 3 block anywhere on the torus
Block(ox, oy) == { << (ox + i) % GridSize, (oy + j) % GridSize >> : i \in 0..2, j \in 0..2 }
Seedings ==
  UNION { { L \in SUBSET Block(ox, oy) : Cardinality(L) <= MaxLive } :
            ox \in Coords, oy \in Coords }

\* a material made for a node, with or without genes
InitCA ==
  /\ caUserData \in { CreateCAMaterialForNode(g) : g \in Genes \cup {NoGene} }
  /\ caCurrent \in { GridOf(L) : L \in Seedings }
  /\ caNext = GridOf({})
  /\ caInitial = caCurrent
  /\ caSteps = 0
  /\ caAccumulated = 0 /\ caHueShift = 0 /\ caElapsed = 0 /\ caFrames = 0

\* no material yet
InitIdleCA ==
  /\ caUserData = CreateCAMaterialForNode(NoGene)
  /\ caCurrent = GridOf({})
  /\ caNext = GridOf({})
  /\ caInitial = GridOf({})
  /\ caSteps = 0
  /\ caAccumulated = 0 /\ caHueShift = 0 /\ caElapsed = 0 /\ caFrames = 0

\* ------------------------------------------------------------------------
\* Specifications
\* ------------------------------------------------------------------------
\* the request queue on its own
Init == InitRQ /\ InitNM /\ InitIdleCA

SpecRQ == Init /\ [][NextRQ]_vars

\* the request queue when every fetch returns or fails, time passes and every
\* timer that is due fires
FetchSettles == \E r \in inflight : Complete(r, TRUE, r.id) \/ Complete(r, FALSE, 0)

TimerFires == \E d \in BagToSet(timers) : TimerFire(d)

NextSettle ==
  \/ \E c \in EnqueueCalls : nextId <= MaxSettle /\ Enqueue(c[1], c[2])
  \/ FetchSettles
  \/ TimerFires
  \/ AwaitTimer

InitSettle == InitRQ /\ InitNM /\ InitIdleCA

SpecSettle ==
  /\ InitSettle
  /\ [][NextSettle]_vars
  /\ WF_vars(FetchSettles)
  /\ WF_vars(TimerFires)
  /\ WF_vars(AwaitTimer)

\* the window-scoped queue, built with no options
InitIdleRQ ==
  /\ cfg = Constructor([cacheExpiration |-> 0, concurrentRequests |-> 0,
                        requestDelay |-> 0, retryLimit |-> 0])
  /\ FreshQueue

\* node ids are numbered in the order the nodes first appear in a snapshot
InOrderOfAppearance(snap) ==
  \A k \in 1..Len(snap) : \A j \in 1..(snap[k].id - 1) :
    gs[j].present \/ \E l \in 1..Len(snap) : snap[l].id = j

\* hydration scheduling: provider snapshots in which nodes appear and become
\* fully scanned, traceroutes, animation frames and build outcomes
HydSnapshots == SnapshotsOver(NodeIds, {Absent, "true"}, {NoPorts})
HopLists == { << a >> : a \in NodeIds } \cup { << a, a + 1 >> : a \in 1..(NumNodes - 1) }

NextHyd ==
  \/ \E snap \in HydSnapshots : InOrderOfAppearance(snap) /\ UpdateNodes(snap, << >>)
  \/ \E hops \in HopLists : /\ \A k \in 1..Len(hops) : \A j \in 1..(hops[k] - 1) : gs[j].present
                            /\ ~mesh[hops[Len(hops)]].exists
                            /\ UpdateTracerouteNodes(hops)
  \/ Frame
  \/ \E id \in NodeIds : BuildResolve(id)
  \/ \E id \in NodeIds : BuildFail(id)

InitHyd == InitIdleRQ /\ InitNM /\ InitIdleCA

SpecHyd == InitHyd /\ [][NextHyd]_vars

\* the scanPorts action of the UI among provider snapshots whose fully_scanned
\* flag goes both ways
ScanIds == 1..NumScanNodes
ScanSnapshots == SnapshotsOver(ScanIds, {"true", "false"}, {NoPorts})

NextScan ==
  \/ \E snap \in ScanSnapshots : InOrderOfAppearance(snap) /\ UpdateNodes(snap, << >>)
  \/ \E id \in ScanIds, ports \in ScanResults : ScanPorts(id, ports)
  \/ Frame
  \/ \E id \in ScanIds : BuildResolve(id)
  \/ \E id \in ScanIds : BuildFail(id)

InitScan == InitIdleRQ /\ InitNM /\ InitIdleCA

SpecScan == InitScan /\ [][NextScan]_vars

\* port children: provider snapshots that carry port lists, the scanPorts
\* action and removeNode
PortIds == 1..NumPortNodes
PortSnapshots == SnapshotsOver(PortIds, {Absent}, PortLists \cup {NoPorts})

NextPorts ==
  \/ \E snap \in PortSnapshots : InOrderOfAppearance(snap) /\ UpdateNodes(snap, << >>)
  \/ \E id \in PortIds, ports \in PortLists : ScanPorts(id, ports)
  \/ \E id \in PortIds : RemoveNode(id)
  \/ \E key \in kids : RemoveChild(key)

InitPorts == InitIdleRQ /\ InitNM /\ InitIdleCA

SpecPorts == InitPorts /\ [][NextPorts]_vars

\* the physics engine: provider snapshots with edges from the router to the
\* other nodes, and ticks of the force simulation
PhysIds == 1..NumPhysNodes
PhysSnapshots ==
  { snap \in SnapshotsOver(PhysIds, {Absent}, {NoPorts, << 22 >>}) :
      \A k \in 1..Len(snap) : snap[k].id = RouterId => snap[k].ports = NoPorts }

\* the nodes other than the router are numbered in the order they first appear
DevicesInOrder(snap) ==
  \A k \in 1..Len(snap) : \A j \in (RouterId + 1)..(snap[k].id - 1) :
    gs[j].present \/ \E l \in 1..Len(snap) : snap[l].id = j
EdgePairs == { << RouterId, b >> : b \in PhysIds \ {RouterId} }

\* edge lists: the edges of a set of pairs, in ascending order of target
RECURSIVE EdgeListOf(_)
EdgeListOf(P) ==
  IF P = {} THEN << >>
  ELSE LET lo == CHOOSE e \in P : \A f \in P : e[2] <= f[2]
       IN  << lo >> \o EdgeListOf(P \ {lo})

EdgeLists == { EdgeListOf(P) : P \in SUBSET EdgePairs }

NextPhys ==
  \/ \E snap \in PhysSnapshots, edges \in EdgeLists :
        DevicesInOrder(snap) /\ UpdateNodes(snap, edges)
  \/ SimulationTick

InitPhys == InitIdleRQ /\ InitNM /\ InitIdleCA

SpecPhys == InitPhys /\ [][NextPhys]_vars

\* removeNode while builds are in flight: the builds go on against the render
\* object that was removed
RemoveIds == 1..NumScanNodes
RemoveSnapshots == SnapshotsOver(RemoveIds, {Absent, "true"}, {NoPorts})

NextRemove ==
  \/ \E snap \in RemoveSnapshots : InOrderOfAppearance(snap) /\ UpdateNodes(snap, << >>)
  \/ Frame
  \/ \E id \in RemoveIds : BuildResolve(id)
  \/ \E id \in RemoveIds : BuildFail(id)
  \/ \E id \in RemoveIds : RemoveNode(id)
  \/ \E id \in RemoveIds : OrphanResolve(id)
  \/ \E id \in RemoveIds : OrphanFail(id)

InitRemove == InitIdleRQ /\ InitNM /\ InitIdleCA

SpecRemove == InitRemove /\ [][NextRemove]_vars

\* the physics engine with removeNode: render objects go and come back
\* between rebuilds
NextRebuild ==
  \/ \E snap \in SnapshotsOver(PhysIds, {Absent}, {NoPorts}), edges \in EdgeLists :
        DevicesInOrder(snap) /\ UpdateNodes(snap, edges)
  \/ SimulationTick
  \/ \E id \in PhysIds : RemoveNode(id)

InitRebuild == InitIdleRQ /\ InitNM /\ InitIdleCA

SpecRebuild == InitRebuild /\ [][NextRebuild]_vars

\* updates that each carry one field of a node: its fully_scanned flag or its
\* port list
MergeIds == 1..NumScanNodes
MergeEntries ==
  { Entry(id, "false", NoPorts) : id \in MergeIds }
  \cup { Entry(id, Absent, p) : id \in MergeIds, p \in { << 22 >>, << 80 >>, << 22, 80 >> } }

NextMerge ==
  \E e \in MergeEntries : InOrderOfAppearance(<< e >>) /\ UpdateNodes(<< e >>, << >>)

InitMerge == InitIdleRQ /\ InitNM /\ InitIdleCA

SpecMerge == InitMerge /\ [][NextMerge]_vars

\* the evolution of one CA material
NextCA == ApplyGeneBasedEvolution

InitEvolution == InitIdleRQ /\ InitNM /\ InitCA

SpecCA == InitEvolution /\ [][NextCA]_vars

\* the frames of one CA material: a blinker or a block
NextCadence == \E deltaTime \in FrameTimes : UpdateCAMaterial(deltaTime)

InitCadence ==
  /\ InitIdleRQ /\ InitNM
  /\ caUserData \in { CreateCAMaterialForNode(g) : g \in Genes \cup {NoGene} }
  /\ caCurrent \in { GridOf({ << 1, 0 >>, << 1, 1 >>, << 1, 2 >> }),
                     GridOf({ << 0, 0 >>, << 0, 1 >>, << 1, 0 >>, << 1, 1 >> }) }
  /\ caNext = GridOf({})
  /\ caInitial = caCurrent
  /\ caSteps = 0
  /\ caAccumulated = 0 /\ caHueShift = 0 /\ caElapsed = 0 /\ caFrames = 0

SpecCadence == InitCadence /\ [][NextCadence]_vars

\* hydration when animation frames keep firing and every build resolves with
\* its material: provider snapshots of nodes that may be fully scanned, and edges
NextHydrate ==
  \/ \E snap \in SnapshotsOver(PhysIds, {Absent, "true"}, {NoPorts}), edges \in EdgeLists :
        DevicesInOrder(snap) /\ UpdateNodes(snap, edges)
  \/ Frame
  \/ \E id \in PhysIds : BuildResolve(id)

InitHydrate == InitIdleRQ /\ InitNM /\ InitIdleCA

SpecHydrate ==
  /\ InitHydrate
  /\ [][NextHydrate]_vars
  /\ WF_vars(Frame)
  /\ \A id \in PhysIds : WF_vars(BuildResolve(id))

\* the whole program
Next == NextRQ \/ NextHyd \/ NextScan \/ NextPorts \/ NextPhys \/ NextRemove \/ NextRebuild \/ NextMerge \/ NextCA \/ NextCadence
  \/ NextSettle \/ NextHydrate

Spec == Init /\ [][Next]_vars

\* ------------------------------------------------------------------------
\* Properties of RequestQueue
\* ------------------------------------------------------------------------
InQueue(i) == \E k \in 1..Len(queue) : queue[k].id = i
InFlight(i) == \E r \in inflight : r.id = i

\* C1: the number of requests in flight never exceeds the concurrency cap, and
\* the activeRequests counter equals the number of requests in flight.
C1_AdmissionControl ==
  /\ Cardinality(inflight) <= cfg.concurrentRequests
  /\ activeRequests = Cardinality(inflight)

\* the default cap is reached while a further request waits in the pending list
C1_Witness ==
  /\ cfg.concurrentRequests = DefaultConcurrentRequests
  /\ Cardinality(inflight) = cfg.concurrentRequests
  /\ Len(queue) > 0

\* C2: a request is fetched at most retryLimit+1 times; its promise is rejected
\* and its callback receives the error only after exactly retryLimit+1 failed
\* fetches, and a rejected request is neither pending nor in flight again.
C2_RetryBound ==
  \A i \in ReqIds :
    /\ attempts[i] <= cfg.retryLimit + 1
    /\ promise[i].state = "rejected" =>
          /\ attempts[i] = cfg.retryLimit + 1
          /\ cbCalls[i] = [data |-> << >>, err |-> 1]
          /\ ~InQueue(i) /\ ~InFlight(i)
    /\ promise[i].state = "pending" =>
          /\ cbCalls[i] = [data |-> << >>, err |-> 0]
          /\ InQueue(i) \/ InFlight(i)

\* a request was rejected under the default retry limit
C2_Witness ==
  \E i \in ReqIds :
    /\ promise[i].state = "rejected"
    /\ cfg.retryLimit = DefaultRetryLimit
    /\ attempts[i] = DefaultRetryLimit + 1

\* the order the pending list is specified to have
IsOrdered(q) ==
  \A k \in 1..(Len(q) - 1) :
    \/ q[k].priority < q[k + 1].priority
    \/ q[k].priority = q[k + 1].priority /\ q[k].addedAt <= q[k + 1].addedAt

\* C6 as stated: the pending list is ordered by (priority, enqueue time) in
\* every state.
C6_AlwaysOrdered == IsOrdered(queue)

\* C6 as amended: the pending list is ordered by (priority, enqueue time) when
\* an enqueue call that was not answered from the cache returns.
C6_OrderedAfterEnqueue ==
  [][(nextId' # nextId /\ promise'[nextId].state = "pending") => IsOrdered(queue')]_vars

\* a retried request sits behind a request that was never retried: an enqueue
\* has sorted the list after the retry put the request at its head
C6_Witness ==
  /\ IsOrdered(queue)
  /\ \E k, l \in 1..Len(queue) : k < l /\ queue[k].retries = 0 /\ queue[l].retries > 0

\* C7: no request is admitted less than requestDelay after a completion.
C7_DelayObserved ==
  [][(\E r \in inflight' : r \notin inflight) =>
       (lastCompletion = -1 \/ now - lastCompletion >= cfg.requestDelay)]_vars

\* C8: an enqueue for a URL whose cache entry is younger than the TTL resolves
\* with the cached data, hands it to the callback, adds no pending item and
\* starts no fetch; otherwise (no entry, or age at or past the TTL) the request
\* becomes a pending or in-flight item.
C8_CacheFirst ==
  [][nextId' # nextId =>
       LET i == nextId
           e == cache[promise'[i].url]
       IN  IF e.timestamp >= 0 /\ now - e.timestamp < cfg.cacheExpiration
           THEN /\ promise'[i].state = "resolved" /\ promise'[i].value = e.data
                /\ cbCalls'[i] = [data |-> << e.data >>, err |-> 0]
                /\ queue' = queue /\ inflight' = inflight /\ attempts' = attempts
           ELSE /\ promise'[i].state = "pending"
                /\ \/ \E k \in 1..Len(queue') : queue'[k].id = i
                   \/ \E r \in inflight' : r.id = i]_vars

\* one request was answered from the cache without a fetch, and another for a
\* URL with a cache entry was fetched again
C8_Witness ==
  /\ \E i \in ReqIds : promise[i].state = "resolved" /\ attempts[i] = 0
  /\ \E i \in ReqIds : /\ promise[i].state = "pending"
                        /\ cache[promise[i].url] # NoEntry
                        /\ now - cache[promise[i].url].timestamp = cfg.cacheExpiration


\* ------------------------------------------------------------------------
\* Properties of NodesManager and CA hydration
\* ------------------------------------------------------------------------
\* C3: for every node id at most one material build started by the hydration
\* scheduler is in flight.
C3_OneBuildPerNode == \A id \in NodeIds : builds[id] + orphanBuilds[id] <= 1

\* a node's fully_scanned flag goes from not set to set in this step
Flipped(id) == ~Truthy(gs[id].fully_scanned) /\ Truthy(gs'[id].fully_scanned)

\* a build of the node's render object resolves in this step
Resolved(id) == lastTurn' = "resolve" /\ builds'[id] < builds[id]

C5_BatchPerTurn == Len(dispatched) <= BatchSize

\* the port children registered for a node
KidsOf(id) == { k \in kids : k[1] = id }

\* C9: after an updateNodes call, a node with a non-empty open-port list has
\* exactly one port child per port of the list, and the registry holds exactly
\* those children for it.
C9_ChildrenTrackPorts ==
  lastTurn = "updateNodes" =>
    \A id \in NodeIds :
      (mesh[id].exists /\ mesh[id].ports # NoPorts /\ Len(mesh[id].ports) > 0) =>
         /\ mesh[id].children = SeqToSet(mesh[id].ports)
         /\ KidsOf(id) = { << id, p >> : p \in SeqToSet(mesh[id].ports) }

C11_ReconciliationCompletes ==
  lastTurn = "updateNodes" => (~threw /\ changedNodes = << >>)

\* the ids that have a render object
Registered(s) == { i \in NodeIds : s.mesh[i].exists }

\* C12: from any state, a second updateNodes call with the arguments of the
\* one before it creates and removes no render object and no port child, and
\* restarts the simulation with the content-only energy.
C12_Idempotent ==
  \A snap \in PhysSnapshots, edges \in EdgeLists :
    LET s1 == UpdateNodesCall(TurnStart, snap, edges)
        s2 == UpdateNodesCall(s1, snap, edges)
    IN  /\ Registered(s2) = Registered(s1)
        /\ s2.kids = s1.kids
        /\ \A i \in NodeIds : s2.mesh[i].children = s1.mesh[i].children
        /\ s2.restartAlpha = ContentAlpha

\* C13: a pinned particle keeps its position and its pin through every tick
\* and every rebuild, no particle but the router's is ever pinned, and the
\* router's particle is pinned when an updateNodes call that built it returns.
C13_PinInvariant ==
  [][/\ \A i \in NodeIds :
          (particles[i].present /\ particles[i].fx # NoPin) =>
             /\ particles'[i].present
             /\ particles'[i].x = particles[i].x
             /\ particles'[i].fx = particles[i].fx
     /\ \A i \in NodeIds \ {RouterId} : particles'[i].fx = NoPin
     /\ (lastTurn' = "updateNodes" /\ ~threw' /\ particles'[RouterId].present) =>
             particles'[RouterId].fx # NoPin]_vars

\* the router is pinned where it was made while another particle has moved,
\* after ticks and a rebuild that changed nothing
C13_Witness ==
  /\ particles[RouterId].present /\ particles[RouterId].fx = 0 /\ particles[RouterId].x = 0
  /\ \E i \in NodeIds \ {RouterId} : particles[i].present /\ particles[i].x > 0
  /\ restartAlpha = ContentAlpha
  /\ simTicks = MaxSimTicks

\* C14: an updateNodes call that returns leaves one particle per registered
\* render object that is not a port child, and its edge list as the link set.
C14_PhysicsMirrorsRegistry ==
  /\ (lastTurn = "updateNodes" /\ ~threw) =>
        { i \in NodeIds : particles[i].present } = { i \in NodeIds : mesh[i].exists }
  /\ \A snap \in PhysSnapshots, edges \in EdgeLists :
       LET s1 == UpdateNodesCall(TurnStart, snap, edges)
       IN  ~s1.threw => /\ { i \in NodeIds : s1.particles[i].present } = Registered(s1)
                        /\ s1.links = edges

\* router, one more node with a port child, one edge: as many particles as
\* nodes, one link
C14_Witness ==
  /\ lastTurn = "updateNodes" /\ ~threw
  /\ \A i \in PhysIds : mesh[i].exists /\ particles[i].present
  /\ kids # {}
  /\ Len(links) = 1

\* ------------------------------------------------------------------------
\* Properties of the CA evolution
\* ------------------------------------------------------------------------
\* the cells around a cell on the torus, for a set of offsets
Around(c, offsets) == { << (c[1] + d[1]) % GridSize, (c[2] + d[2]) % GridSize >> : d \in offsets }

MooreOffsets == ((-1..1) \X (-1..1)) \ { << 0, 0 >> }
VonNeumannOffsets == { << -1, 0 >>, << 1, 0 >>, << 0, -1 >>, << 0, 1 >> }

\* the Life-like rule: survive on a count in S, be born on a count in B
LifeLike(g, B, S, offsets) ==
  [c \in Cells |->
     LET n == Cardinality({ a \in Around(c, offsets) : g[a] = 1 })
     IN  IF (g[c] = 1 /\ n \in S) \/ (g[c] = 0 /\ n \in B) THEN 1 ELSE 0]

\* C15: after an evolution step every cell is alive iff it was alive with a
\* live-neighbour count in the survival set or dead with one in the birth set,
\* the count taken on the torus over the neighbourhood of the material.
C15_EvolutionRule ==
  caSteps > 0 =>
    caCurrent = LifeLike(caNext, BirthRules(caUserData), SurvivalRules(caUserData),
                         IF caUserData.useVonNeumann = "true" THEN VonNeumannOffsets
                         ELSE MooreOffsets)

\* a step under genes with the von Neumann neighbourhood has changed a grid
C15_Witness ==
  /\ caSteps = 1
  /\ caUserData.useVonNeumann = "true"
  /\ caUserData.birthRules = {1}
  /\ caCurrent # caNext
  /\ \E c \in Cells : caCurrent[c] = 1

\* three live cells in a row or in a column
Blinkers ==
  { GridOf({ << x, y >>, << (x + 1) % GridSize, y >>, << (x + 2) % GridSize, y >> }) :
      x \in Coords, y \in Coords }
  \cup
  { GridOf({ << x, y >>, << x, (y + 1) % GridSize >>, << x, (y + 2) % GridSize >> }) :
      x \in Coords, y \in Coords }

\* C16: a material made without genes evolves by birth {3}, survival {2, 3}
\* over the Moore neighbourhood; a blinker differs from itself after one step
\* and is back after two.
C16_ClassicDefault ==
  ~caUserData.hasBirthRules =>
    /\ caSteps > 0 => caCurrent = LifeLike(caNext, {3}, {2, 3}, MooreOffsets)
    /\ caInitial \in Blinkers =>
         /\ caSteps = 1 => caCurrent # caInitial
         /\ caSteps = 2 => caCurrent = caInitial

\* a blinker of a material without genes, back after its second step
C16_Witness ==
  /\ ~caUserData.hasBirthRules /\ ~caUserData.hasSurvivalRules
  /\ caInitial \in Blinkers
  /\ caSteps = 2
  /\ caCurrent = caInitial
  /\ caNext # caInitial

\* ------------------------------------------------------------------------
\* Properties of hydration failure, removal, deferral and gene lookups
\* ------------------------------------------------------------------------
\* a build of the node's render object fails in this step
Failed(id) == lastTurn' = "fail" /\ builds'[id] < builds[id]

\* C17: a node whose material build fails ends with hydrating cleared and
\* needsHydration set again, so that a later batch pass dispatches it again.
C17_FailureResetsForRetry ==
  [][\A id \in NodeIds :
       Failed(id) => /\ ~Truthy(mesh'[id].caProcessing)
                     /\ Truthy(mesh'[id].needsCAUpdate)]_vars

\* C18: the completion of a build whose render object removeNode has removed
\* in the meantime registers nothing with the CA evolution engine, so no grid
\* of a removed object is ever stepped.
C18_CompletionIsNoOp == \A c \in caNodes : c[2] = "live"

\* C19: the event-loop turn of an updateNodes call dispatches no material build.
C19_NoDispatchInUpdateNodesTurn == lastTurn = "updateNodes" => dispatched = << >>

\* the position of an id in the registry
PositionIn(seq, id) == CHOOSE k \in 1..Len(seq) : seq[k] = id

\* C19 as amended: an updateNodes call that returns has run a batch pass
\* itself; it dispatches at most batch-size builds, and if flagged nodes still
\* wait at its end then batch-size builds, of nodes that come before the
\* waiting ones in the registry, were dispatched in that very turn and one more
\* pass is scheduled for the next animation frame.
C19_FirstBatchInSameTurn ==
  [][(lastTurn' = "updateNodes" /\ ~threw') =>
       /\ Len(dispatched') <= BatchSize
       /\ \A id \in NodeIds :
            Eligible(mesh'[id]) =>
              /\ Len(dispatched') = BatchSize
              /\ raf' = raf + 1
              /\ \A k \in 1..Len(dispatched') :
                   PositionIn(order', dispatched'[k]) < PositionIn(order', id)]_vars

\* an updateNodes call has dispatched the build of a node it flagged itself,
\* and another flagged node waits for the next frame
C19_Witness ==
  /\ lastTurn = "updateNodes"
  /\ ~threw
  /\ raf > 0
  /\ \E id \in NodeIds : id \in SeqToSet(dispatched) /\ builds[id] = 1
                         /\ Truthy(mesh[id].caProcessing)
  /\ \E id \in NodeIds : Eligible(mesh[id])

\* C20: every gene fetch on the wire was admitted by the RequestQueue: the
\* fetches of one node, and those of all nodes together, are within the
\* requests the queue has in flight and so within its concurrency cap.
C20_GeneFetchesThroughQueue ==
  /\ \A id \in NodeIds : GeneFetches(id) <= activeRequests
  /\ Cardinality({ id \in NodeIds : GeneFetches(id) > 0 }) <= cfg.concurrentRequests

\* ------------------------------------------------------------------------
\* Properties of the graph state
\* ------------------------------------------------------------------------
\* the value of a field after updates p1 then p2 of a record that held was
After(was, v1, v2, none) == IF v2 # none THEN v2 ELSE IF v1 # none THEN v1 ELSE was

EnqueueMiss == nextId' # nextId /\ promise'[nextId].state = "pending"

\* the place of an item in a list it is in
PlaceIn(q, item) == CHOOSE k \in 1..Len(q) : q[k] = item

\* C22: a retried request at the head of the pending list is the next one
\* admitted: until then it stays ahead of every item that was pending with it,
\* whatever step comes, an enqueue call included.
C22_RetryAdmittedNext ==
  [][(queue # << >> /\ Head(queue).retries > 0) =>
       \/ Head(queue) \in inflight'
       \/ /\ Head(queue) \in SeqToSet(queue')
          /\ \A k \in 1..(PlaceIn(queue', Head(queue)) - 1) :
               queue'[k] \notin SeqToSet(queue)]_vars

\* C22 as amended: a request that fails with retries left is put at the head
\* of the pending list with its counter raised by one, and as long as no
\* enqueue call that misses the cache comes it stays ahead of the items that
\* were pending with it and is admitted no later than any of them.
C22_RetryToFront ==
  [][/\ \A r \in inflight :
          (r \notin inflight' /\ promise'[r.id].state = "pending") =>
             /\ Head(queue').id = r.id
             /\ Head(queue').retries = r.retries + 1
             /\ Tail(queue') = queue
     /\ (queue # << >> /\ Head(queue).retries > 0 /\ ~EnqueueMiss) =>
          \/ Head(queue) \in inflight'
          \/ /\ Head(queue) \in SeqToSet(queue')
             /\ \A k \in 1..(PlaceIn(queue', Head(queue)) - 1) :
                  queue'[k] \notin SeqToSet(queue)]_vars

\* a retried request is in flight again while a request of higher priority,
\* pending since before the failure, still waits
C22_Witness ==
  \E r \in inflight :
    /\ r.retries > 0
    /\ queue # << >>
    /\ Head(queue).priority < r.priority
    /\ Head(queue).retries = 0

\* ------------------------------------------------------------------------
\* Properties of the rebuild of the particle set
\* ------------------------------------------------------------------------
\* C23: a rebuild keeps the particle of every id that had one and is in the new
\* node list, its position and its velocity unchanged; an id that had none
\* gets a freshly seeded particle; the particle of an id that is not in the new
\* list is dropped.
C23_ParticleContinuity ==
  [][(lastTurn' = "updateNodes" /\ engine) =>
       \A i \in NodeIds :
         /\ (particles[i].present /\ mesh'[i].exists) =>
               /\ particles'[i].present
               /\ particles'[i].x = particles[i].x
               /\ particles'[i].vx = particles[i].vx
         /\ (~particles[i].present /\ mesh'[i].exists) =>
               /\ particles'[i].present
               /\ particles'[i].x = 0
               /\ particles'[i].vx = 0
         /\ ~mesh'[i].exists => ~particles'[i].present]_vars

\* after a rebuild a particle that has moved is where it was, and the particle
\* of the router, whose render object was removed, is gone
C23_Witness ==
  /\ lastTurn = "updateNodes"
  /\ ~threw
  /\ particles[2].present /\ particles[2].x > 0 /\ particles[2].vx > 0
  /\ gs[RouterId].present /\ ~mesh[RouterId].exists
  /\ ~particles[RouterId].present

\* ------------------------------------------------------------------------
\* Properties of the positions of the render objects
\* ------------------------------------------------------------------------
\* C26: an updateNodes call, whose snapshot entries carry no position, leaves
\* every render object that is where the last tick put it exactly there.
C26_PositionLeftToPhysics ==
  [][lastTurn' = "updateNodes" =>
       \A i \in NodeIds :
         (mesh[i].exists /\ mesh[i].position = "particle") =>
            mesh'[i].position = "particle"]_vars

\* C30: the render object of the root is at the world origin from its
\* creation on, whatever ticks and rebuilds have run, and so is the particle
\* it follows.
C30_RootAtOrigin ==
  mesh[RouterId].exists => mesh[RouterId].position = "origin"

\* ------------------------------------------------------------------------
\* Properties of the stepping cadence
\* ------------------------------------------------------------------------
\* C24: the generations over a time span depend on the span and the evolution
\* speed only, not on the frames the span was split into: there is one for
\* every 300 ms / speed that have passed.
C24_GenerationsFollowTime ==
  caSteps = (caElapsed * caUserData.evolutionSpeed) \div BaseIntervalMs

\* C24 as amended: a frame brings exactly one generation, and half a degree
\* of hue, when the time accumulated since the last generation, this frame
\* included, has reached 300 ms / speed, and the accumulated time starts again
\* at zero; any other frame leaves grid and hue as they are. So there is at
\* most one generation per frame and at most one per 300 ms / speed.
C24_Cadence ==
  [][caFrames' = caFrames + 1 =>
       LET acc == caAccumulated + (caElapsed' - caElapsed)
       IN  /\ acc * caUserData.evolutionSpeed >= BaseIntervalMs =>
                /\ caSteps' = caSteps + 1
                /\ caCurrent' = LifeLike(caCurrent, BirthRules(caUserData),
                                         SurvivalRules(caUserData),
                                         IF caUserData.useVonNeumann = "true"
                                         THEN VonNeumannOffsets ELSE MooreOffsets)
                /\ caHueShift' = caHueShift + 1
                /\ caAccumulated' = 0
           /\ acc * caUserData.evolutionSpeed < BaseIntervalMs =>
                /\ caSteps' = caSteps
                /\ caCurrent' = caCurrent
                /\ caHueShift' = caHueShift
                /\ caAccumulated' = acc
           /\ caSteps' <= caFrames'
           /\ caSteps' * BaseIntervalMs <= caElapsed' * caUserData.evolutionSpeed]_vars

\* one long frame has brought a single generation where three intervals have
\* passed, and a frame after it none
C24_Witness ==
  /\ caFrames = 2
  /\ caSteps = 1
  /\ caElapsed * caUserData.evolutionSpeed >= 3 * BaseIntervalMs
  /\ caAccumulated > 0
  /\ caCurrent # caInitial

\* ------------------------------------------------------------------------
\* Properties of the orbit force
\* ------------------------------------------------------------------------
\* C25: when the web node and its parent both have a particle, the orbit force
\* changes the web node's velocity toward the parent at a distance above the
\* web radius, away from it below, and not at all at the radius.
C25_OrbitalConstraint ==
  (particles[WebId].present /\ particles[WebParentId].present) =>
     \A distance \in {10, 30, 80, 100, 300} :
        ForceOrbit(particles, WebId, distance) = -Sign(distance - OrbitRadius("web"))

C28_EveryFlaggedNodeHydrated ==
  \A id \in PhysIds :
     (mesh[id].exists /\ Truthy(mesh[id].needsCAUpdate)) ~> Truthy(mesh[id].caEnabled)

\* ------------------------------------------------------------------------
\* Hydration is permanent
\* ------------------------------------------------------------------------
\* C29: an updateNodes call, from the provider or from the scanPorts action,
\* leaves a render object that has its CA material (caEnabled) with it: it
\* does not clear caEnabled, does not set caProcessing or needsCAUpdate, and
\* starts no build for it.
C29_HydrationPermanent ==
  [][\A id \in ScanIds :
       (Truthy(mesh[id].caEnabled) /\ lastTurn' \in {"updateNodes", "scanPorts"}) =>
          /\ Truthy(mesh'[id].caEnabled)
          /\ Truthy(mesh'[id].caProcessing) => Truthy(mesh[id].caProcessing)
          /\ Truthy(mesh'[id].needsCAUpdate) => Truthy(mesh[id].needsCAUpdate)
          /\ builds'[id] <= builds[id]]_vars

====
